---- MODULE Spec2Model ----
(***************************************************************************)
(* A state-machine model of the melodot data-availability core:            *)
(*   - pallet-farmers-fortune: the `claim` dispatchable;                   *)
(*   - das-rpc: `Das::submit_blob_tx`;                                     *)
(*   - network-das: `start_tx_pool_listener`;                              *)
(*   - core-primitives: the sampling `Confidence` record;                  *)
(*   - proof-of-space: `Piece::save` and `Piece::get_cell`;                *)
(*   - melo-erasure-coding: the segment ordering helpers and               *)
(*     `poly_to_segment_vec`.                                              *)
(* Each component has its own next-state relation and specification; the   *)
(* variables of the other components stay at their initial value.          *)
(***************************************************************************)
EXTENDS Integers, Sequences, FiniteSets, TLC

VARIABLES
    block_number,        \* frame_system::Pallet::block_number()
    ClaimantsForBlock,   \* StorageMap BlockNumber -> BoundedVec<AccountId>
    balances,            \* T::Currency free balance of every account
    events,              \* events deposited by the pallet, oldest first
    lastClaim            \* the last `claim` call of the current block: signer,
                         \* arguments, result (err = "None": no call yet) and
                         \* the storage the call started from

palletVars == <<block_number, ClaimantsForBlock, balances, events, lastClaim>>

VARIABLES
    rpc,                 \* the submit_blob_tx call in flight: where it is suspended,
                         \* its arguments, the steps it has performed, whether the
                         \* pool accepted its extrinsic, what verify_bytes and the
                         \* put returned, and the pool and DHT it started from
    pool,                \* the extrinsics in the transaction pool
    dht,                 \* the (key, value) pairs put to the DHT
    rpcResult,           \* what the call returned (kind = "None": nothing yet)
    rpcCalls             \* the number of calls started

rpcVars == <<rpc, pool, dht, rpcResult, rpcCalls>>

VARIABLES
    sidecars,            \* the local store of sidecars, by sidecar id
    lastNotification     \* the notification the tx-pool listener has just handled
                         \* (handled = FALSE: none, or the store has changed
                         \* since): the notification, the store it started from,
                         \* and the saves and DHT requests it made, in order

listenerVars == <<sidecars, lastNotification>>

VARIABLES
    confidence,          \* the Confidence record: samples and commitments
    sampler,             \* the set_sample call in progress (pc = "idle": none):
                         \* its argument n and the positions drawn so far
    confResult           \* the operation on the record that has just completed
                         \* (op = "none": none yet): its arguments and what it
                         \* returned

confidenceVars == <<confidence, sampler, confResult>>

VARIABLES
    plotDb,              \* the farmer's store: the encoded pieces by key, the
                         \* X index (bucket -> cells) and the Z entries
    plotter              \* the Piece::save call in progress (pc = "idle": none):
                         \* the piece, the index of the next cell to plot, and
                         \* the metadata of the pieces saved so far, in order

plotVars == <<plotDb, plotter>>

VARIABLES
    segResult            \* the call of the segment layer that has just returned
                         \* (op = "none": none yet): its arguments and result

segmentVars == <<segResult>>

vars == <<palletVars, rpcVars, listenerVars, confidenceVars, plotVars, segmentVars>>

\* What a step of one component leaves alone.
notPallet == <<rpcVars, listenerVars, confidenceVars, plotVars, segmentVars>>
notRpc == <<palletVars, listenerVars, confidenceVars, plotVars, segmentVars>>
notListener == <<palletVars, rpcVars, confidenceVars, plotVars, segmentVars>>
notConfidence == <<palletVars, rpcVars, listenerVars, plotVars, segmentVars>>
notPlot == <<palletVars, rpcVars, listenerVars, confidenceVars, segmentVars>>
notSegment == <<palletVars, rpcVars, listenerVars, confidenceVars, plotVars>>

(***************************************************************************)
(* Bounds of the model and constants of the program.                       *)
(***************************************************************************)
MaxBlock == 2
NumAccounts == 3
MaxClaimantsPerBlock == 2
RewardAmount == 5
MaxByte == 2
MaxCalls == 2
NumHashes == 2
\* The largest n set_sample is called with, and the number of Piece::save calls.
MaxSamples == 3
MaxSaves == 2
\* config::FIELD_ELEMENTS_PER_BLOB, scaled down: with CHUNK_COUNT = 2 ^ 4 = 6 a
\* blob has two sample columns.
FIELD_ELEMENTS_PER_BLOB == 12

Accounts == 1..NumAccounts
BlockNumbers == 0..MaxBlock

\* Option<T>: None is the empty sequence, Some(v) the one-element sequence.
None == <<>>
Some(v) == <<v>>
IsSome(o) == Len(o) = 1
Unwrap(o) == o[1]

(***************************************************************************)
(* pallet-farmers-fortune                                                  *)
(***************************************************************************)

\* FarmerId::new(account): a hash of the account id, one id per account.
FarmerIdNew(who) == 100 + who

\* The hash a block really has (what a farmer mining on it hashed).
HashOfBlock(b) == 10 + b

\* frame_system::Pallet::block_hash(n) read in block `now`: the recorded hash
\* of a finished block, the default (zero) hash for a block not finished yet.
block_hash(n, now) == IF n < now THEN HashOfBlock(n) ELSE 0

\* The KZG commitment a block really has at a position.
CommitmentOf(b, position) == 20 + (2 * b) + position

\* T::CommitmentFromPosition::commitments(block_num, position): position 0 is
\* inside the block's data, position 1 is beyond it and has no commitment.
commitments(block_num, position) ==
    IF position = 0 THEN Some(CommitmentOf(block_num, position)) ELSE None

\* Solution::verify. A cell carries `opens`, the block whose commitment (at the
\* cell's position) its scalar and proof open against and whose hash it was
\* mined on; the pre-cell also carries `farmer`, the farmer id the triple was
\* mined under (the id under which the difficulty predicates hold).
SolutionVerify(pre_block_hash, farmer_id, pre_cell, win_cell_left, win_cell_right, pre_commit, left_commit, right_commit, win_block_hash_left, win_block_hash_right) ==
    /\ pre_commit = CommitmentOf(pre_cell.opens, pre_cell.position)
    /\ left_commit = CommitmentOf(win_cell_left.opens, win_cell_left.position)
    /\ right_commit = CommitmentOf(win_cell_right.opens, win_cell_right.position)
    /\ farmer_id = pre_cell.farmer
    /\ pre_block_hash = HashOfBlock(pre_cell.opens)
    /\ win_block_hash_left = HashOfBlock(win_cell_left.opens)
    /\ win_block_hash_right = HashOfBlock(win_cell_right.opens)

\* T::MaxClaimantsPerBlock::get(): the bound of the storage vector and of the
\* length check.
MaxClaimantsGet_OffByOne == MaxClaimantsPerBlock + 1
MaxClaimantsGet == MaxClaimantsPerBlock

\* CheckedSub::checked_sub(&now, 1)
PreBlockNum_Current(now) == Some(now)
PreBlockNum(now) == IF now >= 1 THEN Some(now - 1) ELSE None

\* FarmerId::new::<T::AccountId>(who.clone())
ClaimFarmerId_Default(who) == FarmerIdNew(1)
ClaimFarmerId(who) == FarmerIdNew(who)

\* BoundedVec::try_push
TryPush_BoundOneLess(v, x) ==
    IF Len(v) < MaxClaimantsGet - 1 THEN Some(Append(v, x)) ELSE None
TryPush(v, x) ==
    IF Len(v) < MaxClaimantsGet THEN Some(Append(v, x)) ELSE None

\* claimants.contains(&who)
Contains_Never(v, x) == FALSE
Contains(v, x) == \E i \in 1..Len(v) : v[i] = x

\* The solution check of `claim`, from the farmer id to Solution::verify.
SolutionAccepted_NoVerify(who, now, pre_block_num, pre_cell, win_cell_left, win_cell_right, pre_commit, left_commit, right_commit) ==
    TRUE
SolutionAccepted(who, now, pre_block_num, pre_cell, win_cell_left, win_cell_right, pre_commit, left_commit, right_commit) ==
    SolutionVerify(block_hash(pre_block_num, now), ClaimFarmerId(who),
                   pre_cell, win_cell_left, win_cell_right,
                   pre_commit, left_commit, right_commit,
                   block_hash(win_cell_left.block_number, now),
                   block_hash(win_cell_right.block_number, now))

\* The checks of `claim` in the order of the code: the error of the first one
\* that fails, "Ok" when all pass.
ClaimResult_ContainsFirst(now, claimants, who, pre_cell, win_cell_left, win_cell_right) ==
    IF Contains(claimants, who) THEN "AlreadyClaimed"
    ELSE IF ~(Len(claimants) < MaxClaimantsGet) THEN "MaxClaimantsReached"
    ELSE IF ~IsSome(PreBlockNum(now)) THEN "BlockNumberUnderflow"
    ELSE LET pre_block_num == Unwrap(PreBlockNum(now))
             pre_commit == commitments(pre_block_num, pre_cell.position)
             left_commit == commitments(win_cell_left.block_number,
                                        win_cell_left.position)
             right_commit == commitments(win_cell_right.block_number,
                                         win_cell_right.position)
         IN  IF ~IsSome(pre_commit) THEN "PreCommitNotFound"
             ELSE IF ~IsSome(left_commit) THEN "WinCommitNotFound"
             ELSE IF ~IsSome(right_commit) THEN "WinCommitNotFound"
             ELSE IF ~SolutionAccepted(who, now, pre_block_num, pre_cell,
                                       win_cell_left, win_cell_right,
                                       Unwrap(pre_commit), Unwrap(left_commit),
                                       Unwrap(right_commit))
                  THEN "InvalidSolution"
             ELSE IF ~IsSome(TryPush(claimants, who)) THEN "StorageLimitReached"
             ELSE "Ok"
ClaimResult(now, claimants, who, pre_cell, win_cell_left, win_cell_right) ==
    IF ~(Len(claimants) < MaxClaimantsGet) THEN "MaxClaimantsReached"
    ELSE IF Contains(claimants, who) THEN "AlreadyClaimed"
    ELSE IF ~IsSome(PreBlockNum(now)) THEN "BlockNumberUnderflow"
    ELSE LET pre_block_num == Unwrap(PreBlockNum(now))
             pre_commit == commitments(pre_block_num, pre_cell.position)
             left_commit == commitments(win_cell_left.block_number,
                                        win_cell_left.position)
             right_commit == commitments(win_cell_right.block_number,
                                         win_cell_right.position)
         IN  IF ~IsSome(pre_commit) THEN "PreCommitNotFound"
             ELSE IF ~IsSome(left_commit) THEN "WinCommitNotFound"
             ELSE IF ~IsSome(right_commit) THEN "WinCommitNotFound"
             ELSE IF ~SolutionAccepted(who, now, pre_block_num, pre_cell,
                                       win_cell_left, win_cell_right,
                                       Unwrap(pre_commit), Unwrap(left_commit),
                                       Unwrap(right_commit))
                  THEN "InvalidSolution"
             ELSE IF ~IsSome(TryPush(claimants, who)) THEN "StorageLimitReached"
             ELSE "Ok"

\* The solutions a signer submits in block `now`: the genuine one (mined by the
\* signer on block now-1, win cells from blocks 0 and now-1), the ones that
\* differ from it in one cell, and three with two faults each.
PrevOf(now) == IF now >= 1 THEN now - 1 ELSE 0
OtherAccount(who) == (who % NumAccounts) + 1
GenuineSolution(who, now) ==
    [pre   |-> [position |-> 0, opens |-> PrevOf(now), farmer |-> FarmerIdNew(who)],
     left  |-> [block_number |-> 0, position |-> 0, opens |-> 0],
     right |-> [block_number |-> PrevOf(now), position |-> 0, opens |-> PrevOf(now)]]
Solutions(who, now) ==
    LET g == GenuineSolution(who, now) IN
    { g,
      [g EXCEPT !.pre.farmer = FarmerIdNew(OtherAccount(who))],
      [g EXCEPT !.pre.opens = now],
      [g EXCEPT !.pre.position = 1],
      [g EXCEPT !.left.position = 1],
      [g EXCEPT !.right.position = 1],
      [g EXCEPT !.left.opens = PrevOf(now)],
      [g EXCEPT !.right.opens = 0],
      [g EXCEPT !.right.opens = now],
      [g EXCEPT !.right.block_number = now, !.right.opens = now],
      [g EXCEPT !.pre.position = 1, !.left.position = 1],
      [g EXCEPT !.left.position = 1, !.pre.farmer = FarmerIdNew(OtherAccount(who))],
      [g EXCEPT !.pre.position = 1, !.right.opens = now] }

NoClaim == [who |-> 0, sol |-> GenuineSolution(0, 0), err |-> "None",
            before |-> [claimants |-> <<>>, balances |-> <<>>, events |-> <<>>]]

InitPallet ==
    /\ block_number = 0
    /\ ClaimantsForBlock = [b \in BlockNumbers |-> <<>>]
    /\ balances = [a \in Accounts |-> 0]
    /\ events = <<>>
    /\ lastClaim = NoClaim

\* Pallet::claim(origin = Signed(who), pre_cell, win_cell_left, win_cell_right)
claim_DepositsTwice(who, sol) ==
    LET now == block_number
        claimants == ClaimantsForBlock[now]
        err == ClaimResult(now, claimants, who, sol.pre, sol.left, sol.right)
    IN  /\ lastClaim' = [who |-> who, sol |-> sol, err |-> err,
                         before |-> [claimants |-> ClaimantsForBlock,
                                     balances |-> balances, events |-> events]]
        /\ IF err = "Ok"
           THEN /\ ClaimantsForBlock' =
                       [ClaimantsForBlock EXCEPT ![now] = Unwrap(TryPush(claimants, who))]
                /\ balances' = [balances EXCEPT ![who] = @ + (2 * RewardAmount)]
                /\ events' = Append(events, [who |-> who, amount |-> RewardAmount])
           ELSE UNCHANGED <<ClaimantsForBlock, balances, events>>
        /\ UNCHANGED block_number
claim(who, sol) ==
    LET now == block_number
        claimants == ClaimantsForBlock[now]
        err == ClaimResult(now, claimants, who, sol.pre, sol.left, sol.right)
    IN  /\ lastClaim' = [who |-> who, sol |-> sol, err |-> err,
                         before |-> [claimants |-> ClaimantsForBlock,
                                     balances |-> balances, events |-> events]]
        /\ IF err = "Ok"
           THEN /\ ClaimantsForBlock' =
                       [ClaimantsForBlock EXCEPT ![now] = Unwrap(TryPush(claimants, who))]
                /\ balances' = [balances EXCEPT ![who] = @ + RewardAmount]
                /\ events' = Append(events, [who |-> who, amount |-> RewardAmount])
           ELSE UNCHANGED <<ClaimantsForBlock, balances, events>>
        /\ UNCHANGED block_number

\* The chain moves on to the next block.
NextBlock ==
    /\ block_number < MaxBlock
    /\ block_number' = block_number + 1
    /\ lastClaim' = NoClaim
    /\ UNCHANGED <<ClaimantsForBlock, balances, events>>

NextPallet ==
    \/ \E who \in Accounts : \E sol \in Solutions(who, block_number) :
          claim(who, sol) /\ UNCHANGED notPallet
    \/ NextBlock /\ UNCHANGED notPallet

(***************************************************************************)
(* Properties of `claim`.                                                  *)
(***************************************************************************)

Called == lastClaim.err # "None"
ClaimantsBefore == lastClaim.before.claimants[block_number]
NoDuplicates(v) == \A i, j \in 1..Len(v) : v[i] = v[j] => i = j

\* What a valid solution is, stated on the cells and the chain alone: mined
\* under the signer's farmer id on the previous block, every cell at a position
\* that has a commitment, every win cell from a finished block and opening
\* against the commitment of the block it declares.
ValidSolution(who, now, sol) ==
    /\ now >= 1
    /\ sol.pre.farmer = FarmerIdNew(who)
    /\ sol.pre.opens = now - 1
    /\ sol.pre.position = 0
    /\ sol.left.position = 0
    /\ sol.right.position = 0
    /\ sol.left.block_number < now
    /\ sol.right.block_number < now
    /\ sol.left.opens = sol.left.block_number
    /\ sol.right.opens = sol.right.block_number

\* The checks that precede Solution::verify all pass.
ReachesVerify(who, now, sol) ==
    /\ Len(ClaimantsBefore) < MaxClaimantsPerBlock
    /\ \A i \in 1..Len(ClaimantsBefore) : ClaimantsBefore[i] # who
    /\ now >= 1
    /\ sol.pre.position = 0
    /\ sol.left.position = 0
    /\ sol.right.position = 0

StorageUnchangedByLastClaim ==
    /\ ClaimantsForBlock = lastClaim.before.claimants
    /\ balances = lastClaim.before.balances
    /\ events = lastClaim.before.events

\* C1: for every block b, the number of accounts recorded in
\* ClaimantsForBlock[b] never exceeds MaxClaimantsPerBlock.
C1_ClaimantsBounded ==
    \A b \in BlockNumbers : Len(ClaimantsForBlock[b]) <= MaxClaimantsPerBlock

\* A claim was attempted in a block whose list already holds
\* MaxClaimantsPerBlock accounts.
C1_Witness ==
    /\ Called
    /\ Len(ClaimantsBefore) = MaxClaimantsPerBlock
    /\ Len(ClaimantsForBlock[block_number]) = MaxClaimantsPerBlock

\* C2: no list holds the same account twice, and a claim by an account that is
\* already in the current block's list, the list not being full, fails with
\* AlreadyClaimed.
C2_OncePerBlock ==
    /\ \A b \in BlockNumbers : NoDuplicates(ClaimantsForBlock[b])
    /\ (/\ Called
        /\ Len(ClaimantsBefore) < MaxClaimantsPerBlock
        /\ \E i \in 1..Len(ClaimantsBefore) : ClaimantsBefore[i] = lastClaim.who)
       => (lastClaim.err = "AlreadyClaimed" /\ StorageUnchangedByLastClaim)

\* An account accepted in an earlier block and again in the current block
\* claims a second time in the current block and gets AlreadyClaimed.
C2_Witness ==
    /\ lastClaim.err = "AlreadyClaimed"
    /\ \E b \in BlockNumbers :
          /\ b < block_number
          /\ \E i \in 1..Len(ClaimantsForBlock[b]) :
                ClaimantsForBlock[b][i] = lastClaim.who
    /\ \E i \in 1..Len(ClaimantsForBlock[block_number]) :
          ClaimantsForBlock[block_number][i] = lastClaim.who

\* C3: a claim with a valid solution from an account that has not claimed in
\* the block is accepted while fewer than MaxClaimantsPerBlock claims have been
\* accepted in the block; a claim in a block that has MaxClaimantsPerBlock
\* accepted claims fails with MaxClaimantsReached.
C3_AcceptedUntilFull ==
    Called =>
      /\ (/\ Len(ClaimantsBefore) < MaxClaimantsPerBlock
          /\ \A i \in 1..Len(ClaimantsBefore) : ClaimantsBefore[i] # lastClaim.who
          /\ ValidSolution(lastClaim.who, block_number, lastClaim.sol))
         => /\ lastClaim.err = "Ok"
            /\ ClaimantsForBlock[block_number] = Append(ClaimantsBefore, lastClaim.who)
      /\ Len(ClaimantsBefore) = MaxClaimantsPerBlock
         => lastClaim.err = "MaxClaimantsReached"

\* Two distinct accounts were accepted in the block and a third account, with
\* a valid solution, got MaxClaimantsReached.
C3_Witness ==
    /\ lastClaim.err = "MaxClaimantsReached"
    /\ ValidSolution(lastClaim.who, block_number, lastClaim.sol)
    /\ Len(ClaimantsForBlock[block_number]) = MaxClaimantsPerBlock
    /\ \A i \in 1..Len(ClaimantsForBlock[block_number]) :
          ClaimantsForBlock[block_number][i] # lastClaim.who

\* C4: a claim that reaches the verification of its solution and whose
\* solution does not verify is rejected with InvalidSolution, and the list of
\* claimants, the balances and the events are what they were before the call.
C4_InvalidSolutionRejected ==
    (/\ Called
     /\ ReachesVerify(lastClaim.who, block_number, lastClaim.sol)
     /\ ~ValidSolution(lastClaim.who, block_number, lastClaim.sol))
    => (lastClaim.err = "InvalidSolution" /\ StorageUnchangedByLastClaim)

\* A claim whose right win cell does not open against the commitment of the
\* block it declares was rejected with InvalidSolution.
C4_Witness ==
    /\ lastClaim.err = "InvalidSolution"
    /\ lastClaim.sol.right.opens # lastClaim.sol.right.block_number
    /\ lastClaim.sol.left.opens = lastClaim.sol.left.block_number
    /\ lastClaim.sol.pre.opens = block_number - 1
    /\ lastClaim.sol.pre.farmer = FarmerIdNew(lastClaim.who)

\* C5: a claim is accepted for account A only if its solution was mined under
\* FarmerId::new(A), its pre-cell opens against the commitment and hash of
\* block now-1 and each win cell against the commitment and hash of the block
\* the cell declares.
C5_AcceptedOnlyForSigner ==
    lastClaim.err = "Ok" =>
      /\ block_number >= 1
      /\ lastClaim.sol.pre.farmer = FarmerIdNew(lastClaim.who)
      /\ lastClaim.sol.pre.opens = block_number - 1
      /\ lastClaim.sol.left.opens = lastClaim.sol.left.block_number
      /\ lastClaim.sol.right.opens = lastClaim.sol.right.block_number
      /\ lastClaim.sol.left.block_number < block_number
      /\ lastClaim.sol.right.block_number < block_number

\* A claim of an account other than the first was accepted, its win cells
\* from two different blocks.
C5_Witness ==
    /\ lastClaim.err = "Ok"
    /\ lastClaim.who # 1
    /\ lastClaim.sol.left.block_number # lastClaim.sol.right.block_number

\* The error the checks of `claim` give when they are applied in the order
\* full list, signer in the list, block 0, pre-cell commitment, win-cell
\* commitments, solution; stated on the arguments and the chain alone.
ErrorInOrder ==
    IF Len(ClaimantsBefore) >= MaxClaimantsPerBlock THEN "MaxClaimantsReached"
    ELSE IF \E i \in 1..Len(ClaimantsBefore) : ClaimantsBefore[i] = lastClaim.who THEN "AlreadyClaimed"
    ELSE IF block_number = 0 THEN "BlockNumberUnderflow"
    ELSE IF lastClaim.sol.pre.position # 0 THEN "PreCommitNotFound"
    ELSE IF lastClaim.sol.left.position # 0 \/ lastClaim.sol.right.position # 0 THEN "WinCommitNotFound"
    ELSE IF ~ValidSolution(lastClaim.who, block_number, lastClaim.sol) THEN "InvalidSolution"
    ELSE "Ok"

\* C32: the checks of claim are applied in a fixed order and the first one
\* that fails decides the error: MaxClaimantsReached, AlreadyClaimed,
\* BlockNumberUnderflow, PreCommitNotFound, WinCommitNotFound, then
\* InvalidSolution; an account that already claimed in a block whose list is
\* full gets MaxClaimantsReached.
C32_FirstFailingCheckDecides ==
    Called =>
      /\ lastClaim.err = ErrorInOrder
      /\ lastClaim.err # "Ok" => StorageUnchangedByLastClaim

\* An account that is in the full list of the block claimed again, with a
\* solution whose pre-cell and left win cell have no commitment, and got
\* MaxClaimantsReached.
C32_Witness ==
    /\ lastClaim.err = "MaxClaimantsReached"
    /\ Len(ClaimantsBefore) = MaxClaimantsPerBlock
    /\ \E i \in 1..Len(ClaimantsBefore) : ClaimantsBefore[i] = lastClaim.who
    /\ lastClaim.sol.pre.position # 0
    /\ lastClaim.sol.left.position # 0

\* The RewardClaimed events of the claims accepted in the blocks b, b + 1, ..
RECURSIVE RewardEventsFrom(_)
RewardEventsFrom(b) ==
    IF b > MaxBlock THEN <<>>
    ELSE [i \in 1..Len(ClaimantsForBlock[b]) |-> [who |-> ClaimantsForBlock[b][i], amount |-> RewardAmount]]
         \o RewardEventsFrom(b + 1)

\* C33: an accepted claim deposits RewardAmount to the signer, emits one
\* RewardClaimed(signer, RewardAmount) event and appends the signer to the
\* list of the current block only; so the events are those of the lists of
\* the blocks in order, and every balance is RewardAmount times the number of
\* lists the account is in.
C33_OneRewardPerAcceptedClaim ==
    /\ lastClaim.err = "Ok"
          => /\ balances = [lastClaim.before.balances EXCEPT ![lastClaim.who] = @ + RewardAmount]
             /\ events = Append(lastClaim.before.events, [who |-> lastClaim.who, amount |-> RewardAmount])
             /\ ClaimantsForBlock = [lastClaim.before.claimants EXCEPT ![block_number] = Append(@, lastClaim.who)]
    /\ events = RewardEventsFrom(0)
    /\ \A a \in Accounts :
          balances[a] = RewardAmount * Cardinality({b \in BlockNumbers : \E i \in 1..Len(ClaimantsForBlock[b]) : ClaimantsForBlock[b][i] = a})

\* A claim was accepted in the last block after claims were accepted in an
\* earlier block: the signer has been rewarded in both.
C33_Witness ==
    /\ lastClaim.err = "Ok"
    /\ block_number = MaxBlock
    /\ balances[lastClaim.who] = 2 * RewardAmount
    /\ Len(events) >= 3

\* C34: claim never returns StorageLimitReached: after the length check the
\* push of the signer into the bounded list cannot fail.
C34_NeverStorageLimitReached ==
    /\ lastClaim.err # "StorageLimitReached"
    /\ lastClaim.err = "Ok" => ClaimantsForBlock[block_number] = Append(ClaimantsBefore, lastClaim.who)

\* A claim was accepted into the last free slot of the list of its block.
C34_Witness ==
    /\ lastClaim.err = "Ok"
    /\ Len(ClaimantsBefore) = MaxClaimantsPerBlock - 1
    /\ Len(ClaimantsForBlock[block_number]) = MaxClaimantsPerBlock

(***************************************************************************)
(* das-rpc: Das::submit_blob_tx                                            *)
(***************************************************************************)

\* The payloads a caller sends: the empty one and the one-byte ones.
Data == {<<>>} \cup {<<b>> : b \in 1..MaxByte}

\* Sidecar::calculate_id(data): a hash of the bytes, one id per payload.
CalculateId(data) == IF Len(data) = 0 THEN 50 ELSE 50 + data[1]

\* kademlia_key_from_sidecar_id(id): a fixed-length hash of the sidecar id.
kademlia_key_from_sidecar_id(id) == 1000 + id

\* The extrinsics a caller sends. `kind` says how far the extrinsic gets:
\* "undecodable" does not decode, "foreign" decodes as the pool's extrinsic but
\* not as the runtime's UncheckedExtrinsic, "runtime_err" makes the runtime API
\* call fail, "not_blob" is no blob transaction, "blob" is one. A blob
\* transaction declares data_hash and data_len; `committed` is the payload its
\* commitments and proofs really commit to, `wellformed` whether they can be
\* checked at all.
NoBlob(kind) ==
    [kind |-> kind, data_hash |-> 0, data_len |-> 0, committed |-> <<>>,
     wellformed |-> FALSE]
BlobExtrinsic(d, len, c, w) ==
    [kind |-> "blob", data_hash |-> CalculateId(d), data_len |-> len,
     committed |-> c, wellformed |-> w]
Extrinsics ==
    {NoBlob(k) : k \in {"undecodable", "foreign", "runtime_err", "not_blob"}}
    \cup {BlobExtrinsic(d, Len(d), d, TRUE) : d \in Data}
    \cup {BlobExtrinsic(d, Len(d) + 1, d, TRUE) : d \in Data}
    \cup {BlobExtrinsic(d, Len(d), <<MaxByte + 1>>, TRUE) : d \in Data}
    \cup {BlobExtrinsic(d, Len(d), d, FALSE) : d \in Data}

\* The pool's hash of an extrinsic.
TxHash(xt) == <<"tx", xt>>

\* AppDataApi::get_blob_tx_param(at, &ext.function): Result<Option<..>, ApiError>
get_blob_tx_param(ext) ==
    IF ext.kind = "runtime_err" THEN [ok |-> FALSE, value |-> None]
    ELSE IF ext.kind = "blob" THEN [ok |-> TRUE, value |-> Some(ext)]
    ELSE [ok |-> TRUE, value |-> None]

\* SidecarMetadata::verify_bytes(&data): Err when the commitments and proofs
\* cannot be checked, Ok(whether the bytes are the committed ones) otherwise.
verify_bytes(metadata, data) ==
    IF ~metadata.wellformed THEN "Err"
    ELSE IF metadata.committed = data THEN "OkTrue" ELSE "OkFalse"

\* data_len != (data.len() as u32) || Sidecar::calculate_id(&data)[..] != data_hash[..]
LengthOrHashDiffers_Both(data, data_len, data_hash) ==
    data_len # Len(data) /\ CalculateId(data) # data_hash
LengthOrHashDiffers(data, data_len, data_hash) ==
    data_len # Len(data) \/ CalculateId(data) # data_hash

\* The part of submit_blob_tx before the pool: the error it returns, "Ok" when
\* it goes on to submit the extrinsic.
BeforePool(data, extrinsic) ==
    IF extrinsic.kind = "undecodable" THEN "DecodingExtrinsicFailed"
    ELSE IF extrinsic.kind = "foreign" THEN "DecodingTransactionMetadataFailed"
    ELSE LET param == get_blob_tx_param(extrinsic) IN
         IF ~param.ok THEN "FetchTransactionMetadataFailed"
         ELSE IF ~IsSome(param.value) THEN "InvalidTransactionFormat"
         ELSE IF LengthOrHashDiffers(data, Unwrap(param.value).data_len,
                                     Unwrap(param.value).data_hash)
              THEN "DataLengthOrHashError"
         ELSE "Ok"

\* Whether the call got as far as asking the runtime for the metadata.
AsksRuntime(extrinsic) == extrinsic.kind \notin {"undecodable", "foreign"}

\* What submit_blob_tx does once pool.submit_one has resolved: "error" (the `?`
\* returns TransactionPushFailed), "put" (the data verified: put it to the
\* DHT), or "respond" (return the status with err set).
AfterSubmit_IgnoresPoolError(submitted, verified) ==
    IF verified = "OkTrue" THEN "put" ELSE "respond"
AfterSubmit_PutUnverified(submitted, verified) == IF ~submitted THEN "error" ELSE "put"
AfterSubmit(submitted, verified) ==
    IF ~submitted THEN "error"
    ELSE IF verified = "OkTrue" THEN "put" ELSE "respond"

\* blob_tx_status.err for data that was not put: the message of the Ok(false)
\* arm, and Some(e) with the error string e of verify_bytes in the Err(e) arm.
VerifyFailedErr(verified) ==
    IF verified = "OkFalse"
    THEN Some("Data verification failed. Please check your data and try again.")
    ELSE Some("e")

\* The return value for a transaction the pool accepted whose data was not put.
VerifyFailedReturn_AsError(tx_hash, verified) ==
    [kind |-> "Err", error |-> "DataVerificationFailed", tx_hash |-> None, err |-> None]
VerifyFailedReturn(tx_hash, verified) ==
    [kind |-> "Ok", error |-> "", tx_hash |-> Some(tx_hash), err |-> VerifyFailedErr(verified)]

\* The return value after put_value_to_dht resolved; put_res is `.is_some()`.
PutReturn_Silent(tx_hash, put_res) ==
    [kind |-> "Ok", error |-> "", tx_hash |-> Some(tx_hash), err |-> None]
PutReturn(tx_hash, put_res) ==
    [kind |-> "Ok", error |-> "", tx_hash |-> Some(tx_hash),
     err |-> IF ~put_res THEN Some("Failed to put data to DHT network.") ELSE None]

RpcError(error) == [kind |-> "Err", error |-> error, tx_hash |-> None, err |-> None]
NoResult == [kind |-> "None", error |-> "", tx_hash |-> None, err |-> None]

InitRpc ==
    /\ rpc = [pc |-> "idle", data |-> <<>>, extrinsic |-> NoBlob("undecodable"),
              log |-> <<>>, accepted |-> FALSE, verified |-> "NotRun",
              put_res |-> "NotRun", before |-> [pool |-> {}, dht |-> {}]]
    /\ pool = {}
    /\ dht = {}
    /\ rpcResult = NoResult
    /\ rpcCalls = 0

\* submit_blob_tx(data, extrinsic) up to its first suspension: the decoding,
\* the metadata of the runtime, the length and hash check, and the call of
\* pool.submit_one.
submit_blob_tx(data, extrinsic) ==
    LET error == BeforePool(data, extrinsic)
        log == <<"decode">> \o (IF AsksRuntime(extrinsic) THEN <<"metadata">> ELSE <<>>)
    IN  /\ rpc.pc \in {"idle", "done", "dropped"}
        /\ rpcCalls < MaxCalls
        /\ rpcCalls' = rpcCalls + 1
        /\ IF error = "Ok"
           THEN /\ rpc' = [pc |-> "submit_one", data |-> data, extrinsic |-> extrinsic,
                           log |-> Append(log, "submit_one"), accepted |-> FALSE,
                           verified |-> "NotRun", put_res |-> "NotRun",
                           before |-> [pool |-> pool, dht |-> dht]]
                /\ rpcResult' = NoResult
           ELSE /\ rpc' = [pc |-> "done", data |-> data, extrinsic |-> extrinsic,
                           log |-> log, accepted |-> FALSE, verified |-> "NotRun",
                           put_res |-> "NotRun",
                           before |-> [pool |-> pool, dht |-> dht]]
                /\ rpcResult' = RpcError(error)
        /\ UNCHANGED <<pool, dht>>

\* pool.submit_one(..).await resolves, and submit_blob_tx runs to its next
\* suspension or to its end. The pool refuses an extrinsic it already holds
\* and may refuse any other.
submit_one_resolves(submitted) ==
    LET xt == rpc.extrinsic
        verified == verify_bytes(xt, rpc.data)
        todo == AfterSubmit(submitted, verified)
    IN  /\ rpc.pc = "submit_one"
        /\ submitted => xt \notin pool
        /\ pool' = IF submitted THEN pool \cup {xt} ELSE pool
        /\ CASE todo = "error" ->
                  /\ rpc' = [rpc EXCEPT !.pc = "done", !.accepted = submitted]
                  /\ rpcResult' = RpcError("TransactionPushFailed")
             [] todo = "put" ->
                  /\ rpc' = [rpc EXCEPT !.pc = "put_value_to_dht",
                                        !.accepted = submitted,
                                        !.verified = verified,
                                        !.log = Append(@, "put_value_to_dht")]
                  /\ rpcResult' = NoResult
             [] OTHER ->
                  /\ rpc' = [rpc EXCEPT !.pc = "done", !.accepted = submitted,
                                        !.verified = verified]
                  /\ rpcResult' = VerifyFailedReturn(TxHash(xt), verified)
        /\ UNCHANGED <<dht, rpcCalls>>

\* put_value_to_dht(key, data).await resolves: the value is in the DHT when the
\* put succeeded, and submit_blob_tx returns.
put_value_to_dht_resolves(put_res) ==
    /\ rpc.pc = "put_value_to_dht"
    /\ dht' = IF put_res
              THEN dht \cup {<<kademlia_key_from_sidecar_id(rpc.extrinsic.data_hash),
                              rpc.data>>}
              ELSE dht
    /\ rpc' = [rpc EXCEPT !.pc = "done", !.put_res = IF put_res THEN "Some" ELSE "None"]
    /\ rpcResult' = PutReturn(TxHash(rpc.extrinsic), put_res)
    /\ UNCHANGED <<pool, rpcCalls>>

\* The caller drops the future while it is suspended: the call never resumes.
\* Nothing is taken back; a put already handed to the DHT service may still
\* be carried out.
drop_future(put_done) ==
    /\ rpc.pc \in {"submit_one", "put_value_to_dht"}
    /\ put_done => rpc.pc = "put_value_to_dht"
    /\ dht' = IF put_done
              THEN dht \cup {<<kademlia_key_from_sidecar_id(rpc.extrinsic.data_hash),
                              rpc.data>>}
              ELSE dht
    /\ rpc' = [rpc EXCEPT !.pc = "dropped"]
    /\ UNCHANGED <<pool, rpcResult, rpcCalls>>

NextRpc ==
    \/ \E data \in Data : \E extrinsic \in Extrinsics :
          submit_blob_tx(data, extrinsic) /\ UNCHANGED notRpc
    \/ \E submitted \in BOOLEAN : submit_one_resolves(submitted) /\ UNCHANGED notRpc
    \/ \E put_res \in BOOLEAN : put_value_to_dht_resolves(put_res) /\ UNCHANGED notRpc
    \/ \E put_done \in BOOLEAN : drop_future(put_done) /\ UNCHANGED notRpc

(***************************************************************************)
(* Properties of submit_blob_tx.                                           *)
(***************************************************************************)

RpcStarted == rpc.pc # "idle"
InLog(step) == \E i \in 1..Len(rpc.log) : rpc.log[i] = step
IsPrefix(a, b) == Len(a) <= Len(b) /\ \A i \in 1..Len(a) : a[i] = b[i]
DhtPutFailedMessage == "Failed to put data to DHT network."

\* C6: a call whose data differs in length from the data_len of the runtime's
\* metadata, or in hash from its data_hash, returns DataLengthOrHashError; the
\* extrinsic is not submitted to the pool and nothing is put to the DHT.
C6_LengthOrHashError ==
    (/\ RpcStarted
     /\ rpc.extrinsic.kind = "blob"
     /\ \/ rpc.extrinsic.data_len # Len(rpc.data)
        \/ rpc.extrinsic.data_hash # CalculateId(rpc.data))
    => /\ rpc.pc = "done"
       /\ rpcResult = RpcError("DataLengthOrHashError")
       /\ ~InLog("submit_one")
       /\ ~InLog("put_value_to_dht")
       /\ pool = rpc.before.pool
       /\ dht = rpc.before.dht

\* A call whose data has the declared hash but not the declared length
\* returned DataLengthOrHashError.
C6_Witness ==
    /\ rpcResult = RpcError("DataLengthOrHashError")
    /\ rpc.extrinsic.data_len # Len(rpc.data)
    /\ rpc.extrinsic.data_hash = CalculateId(rpc.data)

\* C7: when the pool accepted the extrinsic and the DHT put failed, the call
\* returns success with the pool's tx_hash and
\* err = "Failed to put data to DHT network.", and the extrinsic is in the pool.
C7_PutFailureReported ==
    (rpc.pc = "done" /\ rpc.accepted /\ rpc.put_res = "None")
    => /\ rpcResult.kind = "Ok"
       /\ rpcResult.tx_hash = Some(TxHash(rpc.extrinsic))
       /\ rpcResult.err = Some(DhtPutFailedMessage)
       /\ rpc.extrinsic \in pool
       /\ rpc.before.pool \subseteq pool

\* A call returned after the pool accepted its extrinsic and the put failed.
C7_Witness ==
    /\ rpc.pc = "done"
    /\ rpc.accepted
    /\ rpc.put_res = "None"
    /\ rpc.extrinsic \notin rpc.before.pool

\* C8: a call that returned returned an error exactly when the pool did not
\* accept its extrinsic in this call; whatever failed after the acceptance
\* (verification false, verification error, failed put) is returned as success
\* with the tx_hash and with err set.
C8_ErrorIffNotAccepted ==
    rpcResult.kind # "None" =>
      /\ rpcResult.kind = "Err" <=> ~rpc.accepted
      /\ rpcResult.kind = "Err" => (pool = rpc.before.pool /\ dht = rpc.before.dht)
      /\ (rpc.accepted /\ (rpc.verified # "OkTrue" \/ rpc.put_res = "None"))
         => /\ rpcResult.kind = "Ok"
            /\ rpcResult.tx_hash = Some(TxHash(rpc.extrinsic))
            /\ IsSome(rpcResult.err)

\* A call returned success with an err after the pool accepted an extrinsic
\* whose data failed the verification.
C8_Witness ==
    /\ rpcResult.kind = "Ok"
    /\ rpc.accepted
    /\ rpc.verified = "OkFalse"

\* C9: a call performs its steps in the order metadata, pool submission, DHT
\* put; it puts to the DHT only after the pool accepted its extrinsic, so a
\* call that was dropped or failed before the acceptance has put nothing; and
\* no extrinsic leaves the pool.
C9_MetadataPoolThenDht ==
    /\ IsPrefix(rpc.log, <<"decode", "metadata", "submit_one", "put_value_to_dht">>)
    /\ InLog("put_value_to_dht") => rpc.accepted
    /\ ~rpc.accepted => dht = rpc.before.dht
    /\ rpc.accepted => rpc.extrinsic \in pool
    /\ rpc.before.pool \subseteq pool
    /\ rpc.before.dht \subseteq dht

\* After a call that was accepted and put its data, a second call with data
\* that verifies was dropped before the pool accepted its extrinsic.
C9_Witness ==
    /\ rpc.pc = "dropped"
    /\ ~rpc.accepted
    /\ verify_bytes(rpc.extrinsic, rpc.data) = "OkTrue"
    /\ pool # {}
    /\ dht # {}
    /\ dht = rpc.before.dht

\* The key submit_blob_tx puts the data of the call under.
RpcKey == kademlia_key_from_sidecar_id(rpc.extrinsic.data_hash)

\* C29: submit_blob_tx puts data to the DHT only when verify_bytes returned
\* Ok(true): data that fails the verification is never published although its
\* extrinsic is in the pool, and a response with err = None implies that the
\* data was verified and the put succeeded.
C29_OnlyVerifiedDataIsPut ==
    /\ InLog("put_value_to_dht")
          => (rpc.verified = "OkTrue" /\ verify_bytes(rpc.extrinsic, rpc.data) = "OkTrue")
    /\ dht # rpc.before.dht
          => (rpc.verified = "OkTrue" /\ dht = rpc.before.dht \cup {<<RpcKey, rpc.data>>})
    /\ (rpc.accepted /\ rpc.verified \in {"OkFalse", "Err"})
          => (dht = rpc.before.dht /\ ~InLog("put_value_to_dht") /\ rpc.extrinsic \in pool)
    /\ (rpcResult.kind = "Ok" /\ rpcResult.err = None)
          => (rpc.verified = "OkTrue" /\ rpc.put_res = "Some" /\ <<RpcKey, rpc.data>> \in dht)
    /\ \A e \in dht : e[1] = kademlia_key_from_sidecar_id(CalculateId(e[2]))

\* After a call that put its data, a second call returned whose extrinsic the
\* pool accepted and whose data failed the verification: nothing more was put.
C29_Witness ==
    /\ rpc.pc = "done"
    /\ rpc.accepted
    /\ rpc.verified = "OkFalse"
    /\ rpc.extrinsic \in pool
    /\ rpc.before.dht # {}
    /\ dht = rpc.before.dht

(***************************************************************************)
(* network-das: start_tx_pool_listener                                     *)
(***************************************************************************)

DataHashes == 1..NumHashes

\* What Extractor::extract yields for one blob: (data_hash, bytes_len,
\* commitments, proofs). Two transactions may declare the same data_hash with
\* different lengths, commitments and proofs (variant 1 or 2).
BlobParam(h, variant) ==
    [data_hash |-> h, bytes_len |-> variant, commitments |-> (10 * h) + variant,
     proofs |-> (20 * h) + variant]
BlobParams == {BlobParam(h, v) : h \in DataHashes, v \in {1, 2}}

\* The notifications of the import stream. `ready` is whether
\* ready_transaction finds the transaction, `extract` what the runtime's
\* extractor returns for it: "Err", "None" or "Some" with `data`.
Notification(ready, extract, data) == [ready |-> ready, extract |-> extract, data |-> data]
Notifications ==
    {Notification(FALSE, "Some", <<BlobParam(1, 1)>>),
     Notification(TRUE, "Err", <<>>),
     Notification(TRUE, "None", <<>>),
     Notification(TRUE, "Some", <<>>)}
    \cup {Notification(TRUE, "Some", <<m>>) : m \in BlobParams}
    \cup {Notification(TRUE, "Some", <<BlobParam(h1, 1), BlobParam(h2, 2)>>) :
            h1 \in DataHashes, h2 \in DataHashes}

\* SidercarMetadata { data_len, blobs_hash, commitments, proofs }
SidercarMetadata(param) ==
    [data_len |-> param.bytes_len, blobs_hash |-> param.data_hash,
     commitments |-> param.commitments, proofs |-> param.proofs]

\* SidercarMetadata::id(): the sidecar is identified by its blobs_hash.
MetadataId(metadata) == metadata.blobs_hash

\* Sidercar::from_local(id)
from_local(store, id) == store[id]

\* Sidercar::save_to_local()
save_to_local(store, sidercar) ==
    [store EXCEPT ![MetadataId(sidercar.metadata)] = Some(sidercar)]

\* KademliaKey::from(Vec::from(sidercar.id())): the key is the bytes of the id.
sidercar_kademlia_key(sidercar) == MetadataId(sidercar.metadata)

\* Sidercar { blobs: None, metadata, status: None }
NewSidercar(metadata) == [blobs |-> None, metadata |-> metadata, status |-> None]

SaveEffect(sidercar) == [op |-> "save", id |-> MetadataId(sidercar.metadata)]
GetEffect(sidercar) == [op |-> "get", id |-> sidercar_kademlia_key(sidercar)]

\* The None arm of the match on from_local: save the new sidecar, then ask the
\* network for it.
HandleMissing_NoFetch(st, metadata) ==
    [store |-> save_to_local(st.store, NewSidercar(metadata)),
     effects |-> st.effects \o <<SaveEffect(NewSidercar(metadata))>>]
HandleMissing(st, metadata) ==
    LET sidercar == NewSidercar(metadata) IN
    [store |-> save_to_local(st.store, sidercar),
     effects |-> st.effects \o <<SaveEffect(sidercar), GetEffect(sidercar)>>]

\* The Some arm: ask the network only when the status is unset.
HandleFound_Always(st, sidercar) ==
    [store |-> st.store, effects |-> Append(st.effects, GetEffect(sidercar))]
HandleFound(st, sidercar) ==
    IF ~IsSome(sidercar.status)
    THEN [store |-> st.store, effects |-> Append(st.effects, GetEffect(sidercar))]
    ELSE st

\* The closure run for one (data_hash, bytes_len, commitments, proofs).
HandleBlob_AlwaysNew(st, param) == HandleMissing(st, SidercarMetadata(param))
HandleBlob(st, param) ==
    LET metadata == SidercarMetadata(param)
        found == from_local(st.store, MetadataId(metadata))
    IN  IF IsSome(found) THEN HandleFound(st, Unwrap(found))
        ELSE HandleMissing(st, metadata)

\* data.into_iter().for_each(..): the blobs of one transaction, in order.
RECURSIVE HandleBlobs(_, _)
HandleBlobs(st, data) ==
    IF Len(data) = 0 THEN st
    ELSE HandleBlobs(HandleBlob(st, Head(data)), Tail(data))

\* The body of the listener's loop for one notification.
HandleNotification_IgnoresReady(store, notification) ==
    IF notification.extract # "Some" THEN [store |-> store, effects |-> <<>>]
    ELSE HandleBlobs([store |-> store, effects |-> <<>>], notification.data)
HandleNotification(store, notification) ==
    IF ~notification.ready THEN [store |-> store, effects |-> <<>>]
    ELSE IF notification.extract # "Some" THEN [store |-> store, effects |-> <<>>]
    ELSE HandleBlobs([store |-> store, effects |-> <<>>], notification.data)

InitListener ==
    /\ sidecars = [h \in DataHashes |-> None]
    /\ lastNotification = [handled |-> FALSE,
                           notification |-> Notification(FALSE, "None", <<>>),
                           before |-> [h \in DataHashes |-> None],
                           effects |-> <<>>]

\* import_notification_stream.next() yields a notification and the loop body
\* handles it.
tx_pool_listener(notification) ==
    LET res == HandleNotification(sidecars, notification) IN
    /\ sidecars' = res.store
    /\ lastNotification' = [handled |-> TRUE, notification |-> notification,
                            before |-> sidecars, effects |-> res.effects]

\* The DHT worker receives the bytes of a sidecar whose status is unset: it
\* keeps them with status Success when they pass the checks, and sets status
\* Failed otherwise.
dht_value_found(h, success) ==
    /\ IsSome(sidecars[h])
    /\ ~IsSome(Unwrap(sidecars[h]).status)
    /\ sidecars' = [sidecars EXCEPT ![h] =
                      Some([Unwrap(@) EXCEPT
                              !.blobs = IF success THEN Some(h) ELSE None,
                              !.status = Some(IF success THEN "Success" ELSE "Failed")])]
    /\ lastNotification' = [lastNotification EXCEPT !.handled = FALSE]

NextListener ==
    \/ \E notification \in Notifications :
          tx_pool_listener(notification) /\ UNCHANGED notListener
    \/ \E h \in DataHashes : \E success \in BOOLEAN :
          dht_value_found(h, success) /\ UNCHANGED notListener

(***************************************************************************)
(* Properties of the tx-pool listener.                                     *)
(***************************************************************************)

Range(seq) == {seq[i] : i \in 1..Len(seq)}
EffectsFor(h) == SelectSeq(lastNotification.effects, LAMBDA e : e.id = h)
BlobsFor(h) == SelectSeq(lastNotification.notification.data, LAMBDA m : m.data_hash = h)
Extracted ==
    /\ lastNotification.handled
    /\ lastNotification.notification.ready
    /\ lastNotification.notification.extract = "Some"

\* C10: when the listener handles a ready transaction whose extractor result
\* contains (data_hash, len, commitments, proofs) and the store holds no
\* sidecar for data_hash, it saves a new sidecar with that metadata,
\* blobs = None and status = None, and then issues one DHT get request for it.
C10_NewSidecarSavedThenRequested ==
    Extracted =>
      \A h \in DataHashes :
        (~IsSome(lastNotification.before[h]) /\ Len(BlobsFor(h)) >= 1)
        => /\ sidecars[h] = Some([blobs |-> None,
                                  metadata |-> [data_len |-> BlobsFor(h)[1].bytes_len,
                                                blobs_hash |-> h,
                                                commitments |-> BlobsFor(h)[1].commitments,
                                                proofs |-> BlobsFor(h)[1].proofs],
                                  status |-> None])
           /\ Len(EffectsFor(h)) >= 2
           /\ EffectsFor(h)[1] = [op |-> "save", id |-> h]
           /\ EffectsFor(h)[2] = [op |-> "get", id |-> h]
           /\ Len(BlobsFor(h)) = 1 => Len(EffectsFor(h)) = 2

\* The listener handled a transaction with two blobs of different hashes while
\* the store held a sidecar for neither: both were saved and requested.
C10_Witness ==
    /\ Extracted
    /\ Len(lastNotification.notification.data) = 2
    /\ \A h \in {1, 2} :
          /\ ~IsSome(lastNotification.before[h])
          /\ Len(BlobsFor(h)) = 1
          /\ IsSome(sidecars[h])
    /\ Len(lastNotification.effects) = 4

\* C11: when the store already holds a sidecar for data_hash, the listener
\* issues a DHT get request for it if and only if the stored status is unset
\* (one request per blob of the transaction carrying that hash); with status
\* Success or Failed it issues none, and in neither case does it save.
C11_RequestIffStatusUnset ==
    Extracted =>
      \A h \in DataHashes :
        (IsSome(lastNotification.before[h]) /\ Len(BlobsFor(h)) >= 1)
        => LET stored == Unwrap(lastNotification.before[h]) IN
           /\ ([op |-> "get", id |-> h] \in Range(lastNotification.effects))
                 <=> ~IsSome(stored.status)
           /\ stored.status \in {Some("Success"), Some("Failed")}
                 => Len(EffectsFor(h)) = 0
           /\ ~IsSome(stored.status)
                 => EffectsFor(h) = [i \in 1..Len(BlobsFor(h)) |-> [op |-> "get", id |-> h]]

\* The listener handled a transaction with blobs for two hashes that both had
\* a sidecar: one with status Success or Failed, which was not requested, and
\* one with the status unset, which was.
C11_Witness ==
    /\ Extracted
    /\ \E h1, h2 \in DataHashes :
          /\ h1 # h2
          /\ Len(BlobsFor(h1)) = 1 /\ Len(BlobsFor(h2)) = 1
          /\ IsSome(lastNotification.before[h1])
          /\ IsSome(Unwrap(lastNotification.before[h1]).status)
          /\ IsSome(lastNotification.before[h2])
          /\ ~IsSome(Unwrap(lastNotification.before[h2]).status)
          /\ lastNotification.effects = <<[op |-> "get", id |-> h2]>>

\* C12: handling a notification never changes a sidecar the store already
\* held (its metadata, blobs and status are kept, also when the notification
\* declares other lengths, commitments or proofs for the hash), and never
\* changes or creates the sidecar of a hash the notification has no blob for.
\* One step handles one notification and its blobs in their order: the saves
\* and requests for the first blob precede those for a later blob of another
\* hash.
C12_StoredSidecarsKept ==
    lastNotification.handled =>
      /\ \A h \in DataHashes :
            /\ IsSome(lastNotification.before[h]) => sidecars[h] = lastNotification.before[h]
            /\ (~Extracted \/ Len(BlobsFor(h)) = 0)
                  => /\ sidecars[h] = lastNotification.before[h]
                     /\ Len(EffectsFor(h)) = 0
      /\ LET data == lastNotification.notification.data
             effects == lastNotification.effects
         IN  (Extracted /\ Len(data) = 2 /\ data[1].data_hash # data[2].data_hash)
             => \A i, j \in 1..Len(effects) :
                   (effects[i].id = data[1].data_hash /\ effects[j].id = data[2].data_hash)
                   => i < j

\* The listener handled a transaction whose blob declares, for a hash whose
\* sidecar was already fetched, a length and commitments other than the stored
\* ones, while the store also held a sidecar of another hash: both are kept.
C12_Witness ==
    /\ Extracted
    /\ \E h, other \in DataHashes :
          /\ h # other
          /\ Len(BlobsFor(h)) = 1 /\ Len(BlobsFor(other)) = 0
          /\ IsSome(lastNotification.before[h])
          /\ Unwrap(lastNotification.before[h]).metadata.data_len # BlobsFor(h)[1].bytes_len
          /\ Unwrap(lastNotification.before[h]).blobs # None
          /\ IsSome(lastNotification.before[other])
          /\ sidecars = lastNotification.before

\* C25: the DHT key the listener requests for a sidecar is the key under
\* which submit_blob_tx publishes the bytes of that data_hash, the one
\* kademlia_key_from_sidecar_id derives from the sidecar id.
C25_ListenerKeyIsRpcKey ==
    lastNotification.handled =>
      \A i \in DOMAIN lastNotification.effects :
        lastNotification.effects[i].op = "get" =>
          \E j \in DOMAIN lastNotification.notification.data :
            lastNotification.effects[i].id =
              kademlia_key_from_sidecar_id(lastNotification.notification.data[j].data_hash)

\* Whether, when the listener made its i-th save or request, the store held a
\* sidecar for h with the status unset: it did before the notification, or
\* the listener has saved a new one by then.
PersistedUnsetAt(i, h) ==
    \/ /\ IsSome(lastNotification.before[h])
       /\ ~IsSome(Unwrap(lastNotification.before[h]).status)
    \/ /\ ~IsSome(lastNotification.before[h])
       /\ \E j \in 1..(i - 1) : lastNotification.effects[j] = [op |-> "save", id |-> h]

\* C30: every DHT get request of the listener is for a data_hash that has,
\* when the request is made, a sidecar in the local store with the status
\* unset, a new sidecar being saved right before its request; a notification
\* whose transaction is not ready, or whose extraction returns None or an
\* error, causes no store write and no request.
C30_RequestsOnlyForStoredUnset ==
    lastNotification.handled =>
      /\ \A i \in DOMAIN lastNotification.effects :
            LET e == lastNotification.effects[i] IN
            /\ e.op = "get"
                  => /\ e.id \in DataHashes
                     /\ PersistedUnsetAt(i, e.id)
                     /\ IsSome(sidecars[e.id])
                     /\ ~IsSome(Unwrap(sidecars[e.id]).status)
            /\ e.op = "save"
                  => /\ ~PersistedUnsetAt(i, e.id)
                     /\ ~IsSome(lastNotification.before[e.id])
                     /\ i < Len(lastNotification.effects)
                     /\ lastNotification.effects[i + 1] = [op |-> "get", id |-> e.id]
      /\ ~Extracted => (lastNotification.effects = <<>> /\ sidecars = lastNotification.before)

\* The listener handled a transaction with two blobs: one for a hash whose
\* sidecar was stored with the status unset, which it requested, and one for
\* a hash without a sidecar, which it saved and then requested.
C30_Witness ==
    /\ Extracted
    /\ \E h1, h2 \in DataHashes :
          /\ h1 # h2
          /\ IsSome(lastNotification.before[h1])
          /\ ~IsSome(Unwrap(lastNotification.before[h1]).status)
          /\ ~IsSome(lastNotification.before[h2])
          /\ lastNotification.effects =
                <<[op |-> "get", id |-> h1], [op |-> "save", id |-> h2], [op |-> "get", id |-> h2]>>

(***************************************************************************)
(* core-primitives: Confidence                                             *)
(***************************************************************************)

\* `2 ^ 4` on usize: ^ is the bitwise exclusive or.
RECURSIVE BitXor(_, _)
BitXor(a, b) ==
    IF a = 0 /\ b = 0 THEN 0
    ELSE (((a % 2) + (b % 2)) % 2) + (2 * BitXor(a \div 2, b \div 2))

CHUNK_COUNT == BitXor(2, 4)
SAMPLES_PER_BLOB == FIELD_ELEMENTS_PER_BLOB \div CHUNK_COUNT

\* The numbers of commitments of the records the model constructs.
CommitmentLens == {0, 1, 2}

\* Permill: parts per million, ACCURACY = 1_000_000.
PermillAccuracy == 1000000
PermillOne == PermillAccuracy

\* Permill * Permill: a * b / ACCURACY in the 64-bit upper type, rounded down.
\* The product is formed from the thousands and the units of the operands so
\* that no intermediate value leaves the range of the model's integers.
PermillMul(a, b) ==
    LET a1 == a \div 1000
        a0 == a % 1000
        b1 == b \div 1000
        b0 == b % 1000
    IN  (a1 * b1) + ((((a1 * b0) + (a0 * b1)) * 1000 + (a0 * b0)) \div PermillAccuracy)

\* The loop of Pow::pow: square and multiply, while exp > 0 and the result
\* is not zero.
RECURSIVE PowLoop(_, _, _)
PowLoop(result, self, exp) ==
    IF exp = 0 \/ result = 0 THEN result
    ELSE IF exp % 2 # 0
         THEN PowLoop(PermillMul(result, self), PermillMul(self, self), (exp - 1) \div 2)
         ELSE PowLoop(result, PermillMul(self, self), exp \div 2)

\* Permill::saturating_pow
saturating_pow(self, exp) ==
    IF exp = 0 \/ self = PermillOne THEN PermillOne
    ELSE PowLoop(self, self, exp - 1)

\* Permill::saturating_sub
saturating_sub(a, b) == IF a > b THEN a - b ELSE 0

\* calculate_confidence(samples, base_factor) = one - base_factor ^ samples
calculate_confidence_NoComplement(samples, base_factor) == saturating_pow(base_factor, samples)
calculate_confidence(samples, base_factor) ==
    LET one == PermillOne
        base_power_sample == saturating_pow(base_factor, samples)
    IN  saturating_sub(one, base_power_sample)

\* Confidence::value
value(c, base_factor) ==
    LET success_count == Cardinality({i \in DOMAIN c.samples : c.samples[i].is_availability})
    IN  calculate_confidence(success_count, base_factor)

\* Confidence::exceeds_threshold
exceeds_threshold_NotStrict(c, base_factor, threshold) == value(c, base_factor) >= threshold
exceeds_threshold(c, base_factor, threshold) == value(c, base_factor) > threshold

AVAILABILITY_THRESHOLD == 800000

Position(x, y) == [x |-> x, y |-> y]

\* Sample { position, is_availability: false }
Sample(pos) == [position |-> pos, is_availability |-> FALSE]

\* Sample::set_success
set_success(sample) == [sample EXCEPT !.is_availability = TRUE]

\* The commitments of a record with len rows: the commitment of row y is y + 1.
Commitments(len) == [i \in 1..len |-> i]

\* Confidence::default() and the records a caller constructs: one with no
\* sample yet for every number of commitments, and one whose four positions
\* of two rows are all sampled.
DefaultConfidence == [samples |-> <<>>, commitments |-> <<>>]
FullConfidence ==
    [samples |-> <<Sample(Position(0, 0)), Sample(Position(1, 0)),
                   Sample(Position(0, 1)), Sample(Position(1, 1))>>,
     commitments |-> Commitments(2)]
NewConfidences ==
    {[samples |-> <<>>, commitments |-> Commitments(len)] : len \in CommitmentLens \ {0}}
    \cup {FullConfidence}

\* The positions the callers pass: the valid ones and those with x or y one
\* past the largest valid value.
ProbePositions == {Position(x, y) : x \in 0..SAMPLES_PER_BLOB, y \in CommitmentLens}

\* The positions verify_sample is called with: it reads only y.
VerifyPositions == {Position(0, y) : y \in CommitmentLens}

\* A segment as verify_sample sees it: whether checked() accepts its content,
\* and the commitment and the chunk count its proof was produced for.
Segments == [checked : BOOLEAN, commitment : {1, 2}, chunk_count : {CHUNK_COUNT, 16}]

\* Segment::verify(kzg, commitment, chunk_count)
SegmentVerify(segment, commitment, chunk_count) ==
    segment.commitment = commitment /\ segment.chunk_count = chunk_count

\* rng.gen_range(low..high): the values it may return; an empty range panics.
gen_range_OnlyLow(low, high) == IF high > low THEN {low} ELSE {}
gen_range(low, high) == low..(high - 1)

\* positions.contains(&pos)
PositionsContains(positions, pos) == \E i \in DOMAIN positions : positions[i] = pos

\* if !positions.contains(&pos) { positions.push(pos) }
PushIfNew_Always(positions, pos) == Append(positions, pos)
PushIfNew(positions, pos) ==
    IF ~PositionsContains(positions, pos) THEN Append(positions, pos) ELSE positions

\* self.samples.iter_mut().find(|s| s.position == position): the first match.
FindSample(samples, position) ==
    LET matches == {i \in DOMAIN samples : samples[i].position = position}
    IN  IF matches = {} THEN 0 ELSE CHOOSE i \in matches : \A j \in matches : i <= j

\* The samples after set_sample_success(position).
SetSampleSuccess_PushesMissing(samples, position) ==
    LET i == FindSample(samples, position)
    IN  IF i = 0 THEN Append(samples, set_success(Sample(position))) ELSE [samples EXCEPT ![i] = set_success(@)]
SetSampleSuccess(samples, position) ==
    LET i == FindSample(samples, position)
    IN  IF i = 0 THEN samples ELSE [samples EXCEPT ![i] = set_success(@)]

\* What verify_sample returns.
VerifySampleResult_OutOfRangeErr(c, position, segment) ==
    IF position.y >= Len(c.commitments) THEN "Err"
    ELSE IF ~segment.checked THEN "Err"
    ELSE IF SegmentVerify(segment, c.commitments[position.y + 1], CHUNK_COUNT)
         THEN "OkTrue" ELSE "OkFalse"
VerifySampleResult(c, position, segment) ==
    IF position.y >= Len(c.commitments) THEN "OkFalse"
    ELSE IF ~segment.checked THEN "Err"
    ELSE IF SegmentVerify(segment, c.commitments[position.y + 1], CHUNK_COUNT)
         THEN "OkTrue" ELSE "OkFalse"

NoSegment == [checked |-> FALSE, commitment |-> 1, chunk_count |-> CHUNK_COUNT]
ConfResult(op, n, position, segment, ret) == [op |-> op, n |-> n, position |-> position, segment |-> segment, ret |-> ret]
NoConfResult == ConfResult("none", 0, Position(0, 0), NoSegment, "None")
IdleSampler == [pc |-> "idle", n |-> 0, positions |-> <<>>]

InitConfidence ==
    /\ confidence = DefaultConfidence
    /\ sampler = IdleSampler
    /\ confResult = NoConfResult

\* The caller constructs the record it will work with.
new_confidence(c) ==
    /\ confResult.op = "none"
    /\ sampler.pc = "idle"
    /\ confidence' = c
    /\ confResult' = ConfResult("new", 0, Position(0, 0), NoSegment, "None")
    /\ UNCHANGED sampler

\* set_sample(n) is entered: positions = Vec::with_capacity(n).
set_sample(n) ==
    /\ sampler.pc = "idle"
    /\ sampler' = [pc |-> "loop", n |-> n, positions |-> <<>>]
    /\ confResult' = ConfResult("set_sample", n, Position(0, 0), NoSegment, "Running")
    /\ UNCHANGED confidence

\* One iteration of `while positions.len() < n`: draw x, then y, and push the
\* position unless it was drawn before. gen_range panics on an empty range;
\* the panic leaves the record as it was.
set_sample_draw ==
    /\ sampler.pc = "loop"
    /\ Len(sampler.positions) < sampler.n
    /\ IF gen_range(0, SAMPLES_PER_BLOB) = {} \/ gen_range(0, Len(confidence.commitments)) = {}
       THEN /\ sampler' = IdleSampler
            /\ confResult' = [confResult EXCEPT !.ret = "Panic"]
       ELSE /\ \E x \in gen_range(0, SAMPLES_PER_BLOB) :
               \E y \in gen_range(0, Len(confidence.commitments)) :
                  sampler' = [sampler EXCEPT !.positions = PushIfNew(@, Position(x, y))]
            /\ UNCHANGED confResult
    /\ UNCHANGED confidence

\* The loop is left: self.samples becomes the drawn positions, none available.
set_sample_return ==
    /\ sampler.pc = "loop"
    /\ Len(sampler.positions) >= sampler.n
    /\ confidence' = [confidence EXCEPT
                        !.samples = [i \in 1..Len(sampler.positions) |-> Sample(sampler.positions[i])]]
    /\ sampler' = IdleSampler
    /\ confResult' = [confResult EXCEPT !.ret = "Returned"]

\* Confidence::set_sample_success(position)
set_sample_success(position) ==
    /\ sampler.pc = "idle"
    /\ confidence' = [confidence EXCEPT !.samples = SetSampleSuccess(@, position)]
    /\ confResult' = ConfResult("set_sample_success", 0, position, NoSegment, "Unit")
    /\ UNCHANGED sampler

\* Confidence::verify_sample(position, segment)
verify_sample(position, segment) ==
    /\ sampler.pc = "idle"
    /\ confResult' = ConfResult("verify_sample", 0, position, segment, VerifySampleResult(confidence, position, segment))
    /\ UNCHANGED <<confidence, sampler>>

NextConfidence ==
    \/ \E c \in NewConfidences : new_confidence(c) /\ UNCHANGED notConfidence
    \/ \E n \in 0..MaxSamples : set_sample(n) /\ UNCHANGED notConfidence
    \/ set_sample_draw /\ UNCHANGED notConfidence
    \/ set_sample_return /\ UNCHANGED notConfidence
    \/ \E position \in ProbePositions :
          set_sample_success(position) /\ UNCHANGED notConfidence
    \/ \E position \in VerifyPositions : \E segment \in Segments :
          verify_sample(position, segment) /\ UNCHANGED notConfidence

(***************************************************************************)
(* Properties of the Confidence record.                                    *)
(***************************************************************************)

SampledPositions(samples) == {samples[i].position : i \in DOMAIN samples}
VerifiedPositions(samples) ==
    {samples[i].position : i \in {j \in DOMAIN samples : samples[j].is_availability}}
VerifiedCount(samples) == Cardinality({i \in DOMAIN samples : samples[i].is_availability})
SetSampleReturned == confResult.op = "set_sample" /\ confResult.ret = "Returned"

\* The base factors and the thresholds the properties range over: tenths of one.
Bases == {0, 200000, 500000, 1000000}

RECURSIVE Power(_, _)
Power(b, e) == IF e = 0 THEN 1 ELSE b * Power(b, e - 1)

\* base ^ k in parts per million for a base that is a whole number of tenths
\* and k <= 6: (t / 10) ^ k = t ^ k * 10 ^ (6 - k) millionths, exactly.
TenthsPower(base, k) == Power(base \div 100000, k) * Power(10, 6 - k)

\* C13: whenever set_sample(n) returns, the record holds exactly n samples,
\* their positions are pairwise distinct, every position has
\* y < commitments.len() and x < SAMPLES_PER_BLOB, and no sample is available.
C13_SetSampleDrawsDistinctPending ==
    SetSampleReturned =>
      /\ Len(confidence.samples) = confResult.n
      /\ \A i, j \in DOMAIN confidence.samples :
            i # j => confidence.samples[i].position # confidence.samples[j].position
      /\ \A i \in DOMAIN confidence.samples :
            /\ confidence.samples[i].position.y >= 0
            /\ confidence.samples[i].position.y < Len(confidence.commitments)
            /\ confidence.samples[i].position.x >= 0
            /\ confidence.samples[i].position.x < SAMPLES_PER_BLOB
            /\ confidence.samples[i].is_availability = FALSE

\* set_sample(3) has returned on a record with two commitments: three of the
\* four positions, so two of them in one row and two with the same x.
C13_Witness ==
    /\ SetSampleReturned
    /\ confResult.n = 3
    /\ Len(confidence.commitments) = 2
    /\ Len(confidence.samples) = 3
    /\ Cardinality(SampledPositions(confidence.samples)) = 3

\* C14: within one record a sample only moves from pending to verified: in
\* every step of the record's operations a position that is available stays
\* sampled and available, and once positions are sampled the set of sampled
\* positions stays the same.
C14_VerifiedStaysVerified ==
    [][/\ VerifiedPositions(confidence.samples) \subseteq VerifiedPositions(confidence'.samples)
       /\ confidence.samples # <<>>
            => SampledPositions(confidence'.samples) = SampledPositions(confidence.samples)]_vars

\* C15: for every base factor, the value after a set_sample_success call is
\* greater than or equal to the value before the call.
C15_ValueNeverDecreasesOnSuccess ==
    [][confResult'.op = "set_sample_success"
         => \A base \in Bases : value(confidence', base) >= value(confidence, base)]_vars

\* The second of the four samples has just been marked: with base 1/2 the
\* value went from 1/2 to 3/4.
C15_Witness ==
    /\ confResult.op = "set_sample_success"
    /\ Len(confidence.samples) = 4
    /\ VerifiedCount(confidence.samples) = 2
    /\ value(confidence, 500000) = 750000

\* C16: value(base) is 1 - base ^ k in parts per million, k being the number
\* of samples with is_availability = true; with base 500000 and 4 verified
\* samples out of 4 it is 937500 and exceeds the threshold 800000; and
\* exceeds_threshold is strict: a value equal to the threshold does not
\* exceed it.
C16_ValueIsOneMinusBasePowerK ==
    LET k == VerifiedCount(confidence.samples) IN
    /\ \A base \in Bases :
          /\ value(confidence, base) = PermillOne - TenthsPower(base, k)
          /\ ~exceeds_threshold(confidence, base, value(confidence, base))
          /\ \A threshold \in Bases :
                exceeds_threshold(confidence, base, threshold)
                  <=> (PermillOne - TenthsPower(base, k)) > threshold
    /\ (k = 4 /\ Len(confidence.samples) = 4)
         => /\ value(confidence, 500000) = 937500
            /\ exceeds_threshold(confidence, 500000, AVAILABILITY_THRESHOLD)
    /\ k = 1 => /\ value(confidence, 200000) = AVAILABILITY_THRESHOLD
                /\ ~exceeds_threshold(confidence, 200000, AVAILABILITY_THRESHOLD)

\* All four samples of the record are verified.
C16_Witness ==
    /\ Len(confidence.samples) = 4
    /\ VerifiedCount(confidence.samples) = 4
    /\ value(confidence, 500000) = 937500

\* C17: verify_sample called with a position whose y is at least
\* commitments.len() returns Ok(false), whatever the segment is, and leaves
\* the record as it was.
C17_RowOutOfRangeIsOkFalse ==
    [][(/\ confResult'.op = "verify_sample"
        /\ confResult'.position.y >= Len(confidence.commitments))
       => /\ confResult'.ret = "OkFalse"
          /\ confidence' = confidence]_vars

\* verify_sample has returned Ok(false) for a row past the commitments of a
\* record with samples, given a segment that checked() rejects.
C17_Witness ==
    /\ confResult.op = "verify_sample"
    /\ confResult.position.y >= Len(confidence.commitments)
    /\ Len(confidence.commitments) >= 1
    /\ confidence.samples # <<>>
    /\ ~confResult.segment.checked
    /\ confResult.ret = "OkFalse"

\* C26: the chunk count of the confidence engine is 16: set_sample draws x
\* below FIELD_ELEMENTS_PER_BLOB / 16, and verify_sample accepts a segment of
\* the row's commitment whose proof was produced for the chunk count 16.
C26_ChunkCountIs16 ==
    /\ SetSampleReturned
          => \A i \in DOMAIN confidence.samples :
                confidence.samples[i].position.x < FIELD_ELEMENTS_PER_BLOB \div 16
    /\ (/\ confResult.op = "verify_sample"
        /\ confResult.position.y < Len(confidence.commitments)
        /\ confResult.segment.checked
        /\ confResult.segment.chunk_count = 16)
          => (confResult.ret = "OkTrue"
                <=> confResult.segment.commitment = confidence.commitments[confResult.position.y + 1])

\* C27: no operation on a record changes its commitments, and
\* set_sample_success for a position that is not among the samples leaves the
\* whole record as it was.
C27_CommitmentsNeverMutated ==
    [][/\ confResult'.op # "new" => confidence'.commitments = confidence.commitments
       /\ (/\ confResult'.op = "set_sample_success"
           /\ confResult'.position \notin SampledPositions(confidence.samples))
             => confidence' = confidence]_vars

\* set_sample_success has returned for a position that is not among the four
\* samples of a record with two commitments, one of them verified.
C27_Witness ==
    /\ confResult.op = "set_sample_success"
    /\ confResult.position \notin SampledPositions(confidence.samples)
    /\ Len(confidence.samples) = 4
    /\ VerifiedCount(confidence.samples) = 1
    /\ confidence.commitments = Commitments(2)

\* The number of distinct positions that exist for the record.
PositionCount == SAMPLES_PER_BLOB * Len(confidence.commitments)

\* set_sample has been entered and has neither returned nor panicked.
SetSampleRunning == confResult.op = "set_sample" /\ confResult.ret = "Running"

\* C35: under fair random choice set_sample(n) returns if and only if n is at
\* most SAMPLES_PER_BLOB times commitments.len(): a call with such an n
\* eventually returns, and a call with a larger n never returns and its loop
\* never holds n distinct positions.
C35_ReturnsIffEnoughPositions ==
    /\ (SetSampleRunning /\ confResult.n <= PositionCount) ~> SetSampleReturned
    /\ [](confResult.op = "set_sample" /\ confResult.n > PositionCount
            => /\ confResult.ret # "Returned"
               /\ sampler.pc = "loop" => Len(sampler.positions) < sampler.n)

\* set_sample(n) has returned with n the number of positions that exist, so
\* every position was drawn.
C35_Witness ==
    /\ SetSampleReturned
    /\ Len(confidence.commitments) >= 1
    /\ confResult.n = PositionCount
    /\ Cardinality(SampledPositions(confidence.samples)) = PositionCount

(***************************************************************************)
(* proof-of-space: Piece                                                   *)
(***************************************************************************)

\* The scalars per segment, scaled down: the length of the content of every
\* segment and the divisor of Piece::cell.
FIELD_ELEMENTS_PER_SEGMENT == 2

\* The farmer that plots.
farmer_id == FarmerIdNew(1)

\* XValueManager::calculate_y(farmer_id, scalar): a hash of the farmer id and
\* the scalar into the bucket space; the scalars 1 and 3 collide.
calculate_y(farmer, bls_scalar) == (farmer + bls_scalar) % 2

\* Segment { position, content: { data, proof } }
PlotSegment(data, proof) ==
    [position |-> Position(0, 0), content |-> [data |-> data, proof |-> proof]]
PlotSegments ==
    {PlotSegment(<<1, 3>>, 13), PlotSegment(<<2, 1>>, 21), PlotSegment(<<3, 2>>, 32)}

\* PiecePosition::Row(n) | PiecePosition::Column(n)
PiecePosition(kind, n) == [kind |-> kind, n |-> n]

\* PieceMetadata { block_num, pos }
PieceMetadata(block_num, pos) == [block_num |-> block_num, pos |-> pos]
PieceMetadatas == {PieceMetadata(1, PiecePosition(kind, 0)) : kind \in {"Row", "Column"}}

\* Piece::new(block_num, pos, segments)
Piece(metadata, segments) == [metadata |-> metadata, segments |-> segments]
Pieces ==
    {Piece(m, <<s>>) : m \in PieceMetadatas, s \in PlotSegments}
    \cup {Piece(m, <<s1, s2>>) : m \in PieceMetadatas, s1 \in PlotSegments, s2 \in PlotSegments}

\* PieceMetadata::key(): the SCALE encoding of the block number, the index of
\* the variant of the position and its number.
MetadataKey(metadata) ==
    <<metadata.block_num, IF metadata.pos.kind = "Row" THEN 0 ELSE 1, metadata.pos.n>>
DecodeMetadata(bytes) ==
    PieceMetadata(bytes[1], PiecePosition(IF bytes[2] = 0 THEN "Row" ELSE "Column", bytes[3]))

\* Piece::key(): the encoding of its metadata.
PieceKey(piece) == MetadataKey(piece.metadata)

\* Piece::encode() and Decode::decode for Piece: the encoded metadata followed
\* by the segments.
EncodePiece(piece) == <<MetadataKey(piece.metadata), piece.segments>>
DecodePiece(bytes) == Piece(DecodeMetadata(bytes[1]), bytes[2])

\* DasKv::get and DasKv::set on a map from keys to values.
DbGet(map, key) == IF key \in DOMAIN map THEN Some(map[key]) ELSE None
DbSet(map, key, val) == [k \in DOMAIN map \cup {key} |-> IF k = key THEN val ELSE map[k]]

\* CellMetadata { piece_metadata, pos }
CellMetadata(piece_metadata, pos) == [piece_metadata |-> piece_metadata, pos |-> pos]

\* YPos::from_u32(index): the low bit of the index of the cell in its piece.
YPosFromU32(index) == IF index % 2 = 0 THEN "Left" ELSE "Right"

\* Piece::x_values_iterator(farmer_id): (x, scalar) for every scalar of every
\* segment, in order.
RECURSIVE FlatData(_)
FlatData(segments) ==
    IF Len(segments) = 0 THEN <<>>
    ELSE Head(segments).content.data \o FlatData(Tail(segments))
x_values_iterator(piece, farmer) ==
    [i \in 1..Len(FlatData(piece.segments)) |->
        <<calculate_y(farmer, FlatData(piece.segments)[i]), FlatData(piece.segments)[i]>>]

\* Piece::cell(pos)
cell_FirstOfSegment(piece, pos) ==
    LET index == pos \div FIELD_ELEMENTS_PER_SEGMENT
    IN  IF index >= Len(piece.segments) THEN None
        ELSE Some(<<piece.segments[index + 1].content.data[1], piece.segments[index + 1].content.proof>>)
cell(piece, pos) ==
    LET index == pos \div FIELD_ELEMENTS_PER_SEGMENT
        data_index == pos % FIELD_ELEMENTS_PER_SEGMENT
    IN  IF index >= Len(piece.segments) THEN None
        ELSE LET segment == piece.segments[index + 1]
             IN  Some(<<segment.content.data[data_index + 1], segment.content.proof>>)

\* Piece::get_cell(metadata, db): Ok(None) when the store has no piece under
\* the key of the metadata, else Ok(piece.cell(metadata.pos)); every value
\* stored under a piece key is the encoding of a piece, so decoding succeeds.
get_cell(metadata, db) ==
    LET data == DbGet(db.pieces, MetadataKey(metadata.piece_metadata))
    IN  IF ~IsSome(data) THEN None
        ELSE cell(DecodePiece(Unwrap(data)), metadata.pos)

\* XValueManager::save(db): the cell joins the bucket of its X-value.
XValueSave(db, x, cell_metadata) ==
    LET bucket == IF IsSome(DbGet(db.x, x)) THEN Unwrap(DbGet(db.x, x)) ELSE <<>>
    IN  IF \E i \in DOMAIN bucket : bucket[i] = cell_metadata THEN db
        ELSE [db EXCEPT !.x = DbSet(@, x, Append(bucket, cell_metadata))]

\* XValueManager::match_cells(db): the cells of the same bucket whose
\* Y-position tag is the opposite one.
MatchCells(db, x, x_pos) ==
    LET bucket == IF IsSome(DbGet(db.x, x)) THEN Unwrap(DbGet(db.x, x)) ELSE <<>>
    IN  SelectSeq(bucket, LAMBDA m : YPosFromU32(m.pos) # x_pos)

\* ZValueManager::new(left, right, left_scalar, right_scalar) and its save:
\* the entry keeps the pair of cells under the Z-value of the four arguments.
ZValueManagerNew(left, right, left_scalar, right_scalar) ==
    [left |-> left, right |-> right, left_scalar |-> left_scalar, right_scalar |-> right_scalar]
ZValueSave(db, z_value_manager) == [db EXCEPT !.z = @ \cup {z_value_manager}]

\* The body of `for mc in match_cells` for one matching cell.
SaveMatch_LeftOnly(db, cell_metadata, x_pos, bls_scalar, mc) ==
    LET found == get_cell(mc, db)
    IN  IF ~IsSome(found) \/ x_pos # "Left" THEN db
        ELSE ZValueSave(db, ZValueManagerNew(cell_metadata, mc, bls_scalar, Unwrap(found)[1]))
SaveMatch(db, cell_metadata, x_pos, bls_scalar, mc) ==
    LET found == get_cell(mc, db)
    IN  IF ~IsSome(found) THEN db
        ELSE LET match_cell_data == Unwrap(found)[1]
             IN  IF x_pos = "Left"
                 THEN ZValueSave(db, ZValueManagerNew(cell_metadata, mc, bls_scalar, match_cell_data))
                 ELSE ZValueSave(db, ZValueManagerNew(cell_metadata, mc, match_cell_data, bls_scalar))

RECURSIVE SaveMatches(_, _, _, _, _)
SaveMatches(db, cell_metadata, x_pos, bls_scalar, match_cells) ==
    IF Len(match_cells) = 0 THEN db
    ELSE SaveMatches(SaveMatch(db, cell_metadata, x_pos, bls_scalar, Head(match_cells)), cell_metadata, x_pos, bls_scalar, Tail(match_cells))

\* The closure of try_for_each for the cell at `index` of the piece.
PlotCell(db, piece, index, farmer) ==
    LET x == x_values_iterator(piece, farmer)[index + 1][1]
        bls_scalar == x_values_iterator(piece, farmer)[index + 1][2]
        cell_metadata == CellMetadata(piece.metadata, index)
        x_pos == YPosFromU32(index)
        indexed == XValueSave(db, x, cell_metadata)
    IN  SaveMatches(indexed, cell_metadata, x_pos, bls_scalar, MatchCells(indexed, x, x_pos))

EmptyDb == [pieces |-> <<>>, x |-> <<>>, z |-> {}]
IdlePlotter == [pc |-> "idle", piece |-> Piece(PieceMetadata(0, PiecePosition("Row", 0)), <<>>), index |-> 0, saved |-> <<>>]

InitPlot ==
    /\ plotDb = EmptyDb
    /\ plotter = IdlePlotter

\* Piece::save(db, farmer_id) is entered: the piece is written under its key.
save(piece) ==
    /\ plotter.pc = "idle"
    /\ Len(plotter.saved) < MaxSaves
    /\ plotDb' = [plotDb EXCEPT !.pieces = DbSet(@, PieceKey(piece), EncodePiece(piece))]
    /\ plotter' = [pc |-> "plot", piece |-> piece, index |-> 0, saved |-> plotter.saved]

\* One step of try_for_each over the enumerated x values.
plot_cell ==
    /\ plotter.pc = "plot"
    /\ plotter.index < Len(x_values_iterator(plotter.piece, farmer_id))
    /\ plotDb' = PlotCell(plotDb, plotter.piece, plotter.index, farmer_id)
    /\ plotter' = [plotter EXCEPT !.index = @ + 1]

\* The iterator is exhausted: save returns Ok(()).
save_return ==
    /\ plotter.pc = "plot"
    /\ plotter.index >= Len(x_values_iterator(plotter.piece, farmer_id))
    /\ plotter' = [plotter EXCEPT !.pc = "idle", !.saved = Append(@, plotter.piece.metadata)]
    /\ UNCHANGED plotDb

NextPlot ==
    \/ \E piece \in Pieces : save(piece) /\ UNCHANGED notPlot
    \/ plot_cell /\ UNCHANGED notPlot
    \/ save_return /\ UNCHANGED notPlot

(***************************************************************************)
(* Properties of the plot.                                                 *)
(***************************************************************************)

\* The cell positions the properties read: those of the largest piece and two
\* beyond it.
PlotProbePositions == 0..((2 * FIELD_ELEMENTS_PER_SEGMENT) + 1)

\* The segment that holds the scalar at flattened index pos, found by walking
\* the segments and their lengths.
RECURSIVE SegmentOfFlat(_, _)
SegmentOfFlat(segments, pos) ==
    IF pos < Len(Head(segments).content.data) THEN Head(segments)
    ELSE SegmentOfFlat(Tail(segments), pos - Len(Head(segments).content.data))

SavedMetadatas ==
    {plotter.saved[i] : i \in DOMAIN plotter.saved}
    \cup (IF plotter.pc = "plot" THEN {plotter.piece.metadata} ELSE {})

\* The cells of the pieces in the store, and the scalar and the X-value of one.
StoredCells ==
    {c \in {CellMetadata(m, pos) : m \in PieceMetadatas, pos \in PlotProbePositions} :
        IsSome(get_cell(c, plotDb))}
ScalarOf(c, db) == Unwrap(get_cell(c, db))[1]
XValueOf(c) == calculate_y(farmer_id, ScalarOf(c, plotDb))

C19_CollidingCellsHaveZEntry ==
    plotter.pc = "idle" =>
      \A c1 \in StoredCells : \A c2 \in StoredCells :
        (/\ YPosFromU32(c1.pos) = "Left"
         /\ YPosFromU32(c2.pos) = "Right"
         /\ XValueOf(c1) = XValueOf(c2))
        => \E e \in plotDb.z : {e.left, e.right} = {c1, c2}

\* Two pieces have been saved under different metadata; a Right cell of the
\* first collides with a Left cell of the second, a Left cell of the first
\* with a Right cell of the second, and two cells of one piece collide.
C19_Witness ==
    /\ plotter.pc = "idle"
    /\ Len(plotter.saved) = 2
    /\ plotter.saved[1] # plotter.saved[2]
    /\ \E c1 \in StoredCells : \E c2 \in StoredCells :
          /\ c1.piece_metadata = plotter.saved[2] /\ c2.piece_metadata = plotter.saved[1]
          /\ YPosFromU32(c1.pos) = "Left" /\ YPosFromU32(c2.pos) = "Right"
          /\ XValueOf(c1) = XValueOf(c2)
          /\ \E e \in plotDb.z : {e.left, e.right} = {c1, c2}
    /\ \E c1 \in StoredCells : \E c2 \in StoredCells :
          /\ c1.piece_metadata = plotter.saved[1] /\ c2.piece_metadata = plotter.saved[2]
          /\ YPosFromU32(c1.pos) = "Left" /\ YPosFromU32(c2.pos) = "Right"
          /\ XValueOf(c1) = XValueOf(c2)
          /\ \E e \in plotDb.z : {e.left, e.right} = {c1, c2}
    /\ \E c1 \in StoredCells : \E c2 \in StoredCells :
          /\ c1.piece_metadata = c2.piece_metadata
          /\ YPosFromU32(c1.pos) = "Left" /\ YPosFromU32(c2.pos) = "Right"
          /\ XValueOf(c1) = XValueOf(c2)

\* C20: in every Z entry that a step of Piece::save writes, the left cell is
\* tagged Left and the right cell Right, the left scalar is the scalar of the
\* left cell and the right scalar the scalar of the right cell.
C20_ZEntryRolesFollowTags ==
    [][\A e \in plotDb'.z \ plotDb.z :
          /\ YPosFromU32(e.left.pos) = "Left"
          /\ YPosFromU32(e.right.pos) = "Right"
          /\ e.left_scalar = ScalarOf(e.left, plotDb')
          /\ e.right_scalar = ScalarOf(e.right, plotDb')]_vars

\* The cells named by the entries of the X index and of the Z index.
IndexCells(db) ==
    UNION {Range(db.x[k]) : k \in DOMAIN db.x} \cup {e.left : e \in db.z} \cup {e.right : e \in db.z}

\* C31: Piece::save writes the piece before any X or Z index entry, so at
\* every step of a save every cell that an X or Z index entry names under the
\* metadata of the piece being saved resolves through get_cell to a cell of a
\* piece in the store.
C31_IndexEntriesResolve ==
    plotter.pc = "plot" =>
      \A c \in IndexCells(plotDb) :
        c.piece_metadata = plotter.piece.metadata => IsSome(get_cell(c, plotDb))

(***************************************************************************)
(* melo-erasure-coding: order_segments_row, order_segments_col and         *)
(* poly_to_segment_vec                                                     *)
(***************************************************************************)

\* config::SEGMENT_LENGTH, scaled down.
SEGMENT_LENGTH == 2

\* SegmentData { data, proof } and Segment::new(position, data, proof)
SegmentData(data, proof) == [data |-> data, proof |-> proof]
SegmentNew(position, data, proof) == [position |-> position, content |-> SegmentData(data, proof)]

\* Result<T, String>, and the abort of the call by a panic.
SegOk(v) == [kind |-> "Ok", value |-> v, error |-> ""]
SegErr(e) == [kind |-> "Err", value |-> <<>>, error |-> e]
SegPanic == [kind |-> "Panic", value |-> <<>>, error |-> ""]

\* vec![None; n]
NoneVec(n) == [i \in 1..n |-> None]

\* The loop of order_segments_row from segment i on: the comparison of y, then the
\* indexed assignment, which panics when position.x is not an index of the
\* vector.
RECURSIVE OrderRowLoop(_, _, _, _)
OrderRowLoop(segments, i, y, ordered_segments) ==
    IF i > Len(segments) THEN SegOk(ordered_segments)
    ELSE IF segments[i].position.y # y THEN SegErr("segments y not equal")
    ELSE IF segments[i].position.x >= Len(ordered_segments) THEN SegPanic
    ELSE OrderRowLoop(segments, i + 1, y, [ordered_segments EXCEPT ![segments[i].position.x + 1] = Some(segments[i].content)])

\* order_segments_row(segments); segments[0] panics on the empty list.
OrderSegmentsRow(segments) ==
    IF Len(segments) > FIELD_ELEMENTS_PER_BLOB * 2 THEN SegErr("segments x not equal")
    ELSE IF Len(segments) = 0 THEN SegPanic
    ELSE OrderRowLoop(segments, 1, segments[1].position.y, NoneVec(FIELD_ELEMENTS_PER_BLOB * 2))

\* The loop of order_segments_col from segment i on: the comparison of x, then the
\* indexed assignment, at position.x.
RECURSIVE OrderColLoop(_, _, _, _)
OrderColLoop(segments, i, x, ordered_segments) ==
    IF i > Len(segments) THEN SegOk(ordered_segments)
    ELSE IF segments[i].position.x # x THEN SegErr("segments x not equal")
    ELSE IF segments[i].position.x >= Len(ordered_segments) THEN SegPanic
    ELSE OrderColLoop(segments, i + 1, x, [ordered_segments EXCEPT ![segments[i].position.x + 1] = Some(segments[i].content)])

\* order_segments_col(segments, k)
OrderSegmentsCol(segments, k) ==
    IF Len(segments) > k * 2 THEN SegErr("segments x not equal")
    ELSE IF Len(segments) = 0 THEN SegPanic
    ELSE OrderColLoop(segments, 1, segments[1].position.x, NoneVec(k * 2))

\* The scalars of a polynomial and the polynomials a caller passes: the
\* evaluations of one, two or four points.
PolyScalars == {0, 1}
PolyLens == {1, 2, 4}
Polynomials == UNION {[1..n -> PolyScalars] : n \in PolyLens}

\* extend_poly(fs, poly): the first half is the polynomial's evaluations, the
\* second half the redundancy computed from them.
extend_poly(poly) == poly \o [i \in 1..Len(poly) |-> (poly[i] + 1) % 2]

\* A polynomial as a number, and the multi-opening of a polynomial at a chunk
\* index: one proof per polynomial and chunk.
RECURSIVE PolyValue(_)
PolyValue(poly) == IF Len(poly) = 0 THEN 1 ELSE poly[1] + (2 * PolyValue(Tail(poly)))
MultiOpening(poly, chunk) == (100 * PolyValue(poly)) + chunk

\* fk.data_availability(poly): the multi-openings of the chunks of the
\* extended polynomial, in the order of the chunk index.
data_availability(poly) ==
    [i \in 1..(((2 * Len(poly)) + SEGMENT_LENGTH - 1) \div SEGMENT_LENGTH) |-> MultiOpening(poly, i - 1)]

\* slice.chunks(size): consecutive chunks, the last one possibly shorter.
Chunks(seq, size) ==
    [c \in 1..((Len(seq) + size - 1) \div size) |->
        SubSeq(seq, ((c - 1) * size) + 1, IF c * size < Len(seq) THEN c * size ELSE Len(seq))]

\* Position::default()
PositionDefault == Position(0, 0)

\* The segment the closure of poly_to_segment_vec builds for (i, chunk).
SegmentOfChunk(all_proofs, i, chunk) ==
    LET position == PositionDefault
        content == chunk
        proof == all_proofs[i + 1]
    IN  SegmentNew(position, content, proof)

\* poly_to_segment_vec(poly, fk)
PolyToSegmentVec(poly) ==
    LET all_proofs == data_availability(poly)
        chunks == Chunks(extend_poly(poly), SEGMENT_LENGTH)
    IN  SegOk([c \in 1..Len(chunks) |-> SegmentOfChunk(all_proofs, c - 1, chunks[c])])

\* The segments the callers of the ordering helpers pass: positions inside
\* the vectors and one column past the row vector, two contents.
SegXs == {0, 1, FIELD_ELEMENTS_PER_BLOB * 2}
SegYs == {0, 1}
SegContents == {SegmentData(<<d, d>>, d) : d \in {1, 2}}
OrderSegments == {[position |-> Position(x, y), content |-> c] : x \in SegXs, y \in SegYs, c \in SegContents}

\* The lists passed: those of at most two segments, and a row with one
\* segment more than the row vector has slots.
ExcessRow == [i \in 1..((FIELD_ELEMENTS_PER_BLOB * 2) + 1) |-> [position |-> Position((i - 1) % (FIELD_ELEMENTS_PER_BLOB * 2), 0), content |-> SegmentData(<<1, 1>>, 1)]]
SegmentLists == {<<>>} \cup {<<s>> : s \in OrderSegments} \cup {<<s, t>> : s \in OrderSegments, t \in OrderSegments} \cup {ExcessRow}
ColumnKs == {1, 2}

\* The call of the segment layer that has just returned.
SegResult(op, segments, k, poly, ret) == [op |-> op, segments |-> segments, k |-> k, poly |-> poly, ret |-> ret]
NoSegResult == SegResult("none", <<>>, 0, <<>>, SegOk(<<>>))

InitSegment == segResult = NoSegResult

order_segments_row(segments) ==
    segResult' = SegResult("order_segments_row", segments, 0, <<>>, OrderSegmentsRow(segments))

order_segments_col(segments, k) ==
    segResult' = SegResult("order_segments_col", segments, k, <<>>, OrderSegmentsCol(segments, k))

poly_to_segment_vec(poly) ==
    segResult' = SegResult("poly_to_segment_vec", <<>>, 0, poly, PolyToSegmentVec(poly))

NextSegment ==
    \/ \E segments \in SegmentLists : order_segments_row(segments) /\ UNCHANGED notSegment
    \/ \E segments \in SegmentLists, k \in ColumnKs : order_segments_col(segments, k) /\ UNCHANGED notSegment
    \/ \E poly \in Polynomials : poly_to_segment_vec(poly) /\ UNCHANGED notSegment

(***************************************************************************)
(* Properties of the segment layer.                                        *)
(***************************************************************************)

SegReturned(op) == segResult.op = op
OrderReturned == SegReturned("order_segments_row") \/ SegReturned("order_segments_col")

\* The coordinate that varies along the output vector of the call, and the one
\* that all segments of the call have to share.
AlongOf(segment) == IF SegReturned("order_segments_row") THEN segment.position.x ELSE segment.position.y
FixedOf(segment) == IF SegReturned("order_segments_row") THEN segment.position.y ELSE segment.position.x

\* The number of slots of the output vector of the call.
OutputSlots == IF SegReturned("order_segments_row") THEN FIELD_ELEMENTS_PER_BLOB * 2 ELSE segResult.k * 2

CrossDimension == \E i, j \in DOMAIN segResult.segments : FixedOf(segResult.segments[i]) # FixedOf(segResult.segments[j])
ExcessSegments == Len(segResult.segments) > OutputSlots
DuplicatePositions ==
    \E i, j \in DOMAIN segResult.segments : i # j /\ segResult.segments[i].position = segResult.segments[j].position

\* The vector the ordering helpers are to return: slot i holds the content of
\* the segment whose varying coordinate is i.
DenseVector ==
    [i \in 1..OutputSlots |->
        IF \E j \in DOMAIN segResult.segments : AlongOf(segResult.segments[j]) = i - 1
        THEN Some(segResult.segments[CHOOSE j \in DOMAIN segResult.segments : AlongOf(segResult.segments[j]) = i - 1].content)
        ELSE None]

\* C21: every segment poly_to_segment_vec emits carries the multi-opening of
\* the chunk index given by its own position.x: segment number i has
\* position.x = i and proof all_proofs[i].
C21_ProofOpensChunkOfPositionX ==
    SegReturned("poly_to_segment_vec") =>
        \A i \in DOMAIN segResult.ret.value :
            /\ segResult.ret.value[i].position.x = i - 1
            /\ segResult.ret.value[i].content.proof = data_availability(segResult.poly)[i]
            /\ segResult.ret.value[i].content.proof = MultiOpening(segResult.poly, segResult.ret.value[i].position.x)

\* C22: order_segments_row and order_segments_col return an error when the
\* segments do not share the fixed dimension, when there are more segments
\* than output slots, and when two segments have the same position.
C22_BadListsAreErrors ==
    (OrderReturned /\ (CrossDimension \/ ExcessSegments \/ DuplicatePositions))
        => segResult.ret.kind = "Err"

\* C23: for segments that share the fixed coordinate and have distinct
\* varying coordinates inside the output vector, order_segments_col returns
\* the vector of length 2k whose slot i holds the content of the segment with
\* position.y = i, and order_segments_row the one of length
\* 2 * FIELD_ELEMENTS_PER_BLOB over position.x.
C23_OrderedByVaryingCoordinate ==
    (/\ OrderReturned
     /\ Len(segResult.segments) > 0
     /\ ~CrossDimension
     /\ \A i, j \in DOMAIN segResult.segments :
            i # j => AlongOf(segResult.segments[i]) # AlongOf(segResult.segments[j])
     /\ \A i \in DOMAIN segResult.segments : AlongOf(segResult.segments[i]) < OutputSlots)
        => segResult.ret = SegOk(DenseVector)

\* C24: no operation aborts on bad input: the ordering helpers, given an empty
\* list or a segment whose index is outside the output vector, and set_sample,
\* given a record with no commitments, return a value.
C24_NoOperationPanics ==
    /\ segResult.ret.kind # "Panic"
    /\ confResult.ret # "Panic"

Init == InitPallet /\ InitRpc /\ InitListener /\ InitConfidence /\ InitPlot /\ InitSegment

SpecPallet == Init /\ [][NextPallet]_vars

SpecRpc == Init /\ [][NextRpc]_vars

SpecListener == Init /\ [][NextListener]_vars

SpecConfidence == Init /\ [][NextConfidence]_vars

\* The thread inside set_sample keeps running, and the generator is fair: as
\* long as a draw can add a position that was not drawn yet, one eventually
\* does. A draw that repeats a position leaves the state as it is.
SpecConfidenceFair ==
    /\ Init
    /\ [][NextConfidence]_vars
    /\ WF_vars(set_sample_draw /\ UNCHANGED notConfidence)
    /\ WF_vars(set_sample_return /\ UNCHANGED notConfidence)

SpecPlot == Init /\ [][NextPlot]_vars

SpecSegment == Init /\ [][NextSegment]_vars

Next ==
    \/ NextPallet
    \/ NextRpc
    \/ NextListener
    \/ NextConfidence
    \/ NextPlot
    \/ NextSegment

Spec == Init /\ [][Next]_vars
====
